---- MODULE Spec2Model ----
(***************************************************************************)
(* Model of the artifact download action (src/main.ts).                    *)
(*                                                                         *)
(* One run of downloadArtifact() is a sequential state machine:            *)
(*   start -> list -> passA -> passB -> report -> (url get mkdir zip       *)
(*   extract)* -> done, with every throw leading to the catch block        *)
(*   (pc = "failed").                                                      *)
(*                                                                         *)
(* Not modelled: the core.info log lines (lines 82-83, 102, 105, 114, 117, *)
(* 122-125, 140-144) and formatBytes, which only feed those lines.         *)
(***************************************************************************)
EXTENDS Integers, Sequences, FiniteSets, TLC

\* ------------------------------------------------------------------ bounds

\* Longest listing the service returns in a run of Spec.
MaxArtifacts == 3
\* Longest filtered list handed to the selector in a run of SpecSelect.
MaxLen == 3
\* Largest updated_at instant in a run of SpecSelect.
MaxTime == 2
\* Page size of the listing; stands for per_page: 100 of line 89, scaled down
\* so that a listing of MaxArtifacts entries spans several pages.
PerPage == 2

\* ------------------------------------------------------------ value domains

\* artifact.name === undefined (the name is absent from the response).
Absent == "<undefined>"
\* artifact.updated_at is null/undefined.
NoTime == 0
\* The time value of new Date('') (an Invalid Date): NaN.
NaN == -1

\* A JavaScript falsy string value: undefined or ''.
Falsy(s) == s = Absent \/ s = ""

\* The names artifacts carry in a run of SpecSelect / of Spec.
Names == {Absent, "", "a", "1", "2"}
PipelineNames == {"", "a", "1"}
\* The updated_at values artifacts carry: absent, or an instant.
Times == {NoTime} \cup (1..MaxTime)
PipelineTimes == {NoTime, 1}

\* Property keys that are canonical array indices ("0", "1", "2", ... without
\* leading zeros) and their numeric value, for the names above.
ArrayIndexValue == ("0" :> 0) @@ ("1" :> 1) @@ ("2" :> 2) @@ ("10" :> 10)

\* ---------------------------------------------------------------- getLatest

\* new Date(x.updated_at ?? '').valueOf()
DateOf(updated_at) == IF updated_at = NoTime THEN NaN ELSE updated_at

\* curDate > prevDate on two Dates: a comparison with NaN is false.
DateGreater(a, b) == a # NaN /\ b # NaN /\ a > b

\* The reducer of line 19; index is the JavaScript (0-based) index of cur.
ReduceStepGreaterEq(prev, cur, index) ==
  IF ~DateGreater(DateOf(prev.updated_at), DateOf(cur.updated_at)) /\ index # 0
  THEN cur ELSE prev
ReduceStep(prev, cur, index) ==
  IF DateGreater(DateOf(cur.updated_at), DateOf(prev.updated_at)) /\ index # 0
  THEN cur ELSE prev

\* Array.prototype.reduce without an initial value: the accumulator starts as
\* the first element and the callback runs from the second one on.
RECURSIVE Reduce(_, _, _)
Reduce(arr, prev, k) ==
  IF k > Len(arr) THEN prev
  ELSE Reduce(arr, ReduceStep(prev, arr[k], k - 1), k + 1)

getLatest(arts) == Reduce(arts, arts[1], 2)

\* ----------------------------------------------- groupAndGetLatestArtifacts

\* The object `grouped`: its string keys in insertion order, with their values.
EmptyGrouped == [keys |-> <<>>, vals |-> <<>>]

KeyPos(grouped, name) == {i \in 1..Len(grouped.keys) : grouped.keys[i] = name}

\* One iteration of the loop of lines 28-34.
AddToGroup(grouped, artifact) ==
  IF Falsy(artifact.name) THEN grouped
  ELSE IF KeyPos(grouped, artifact.name) = {}
       THEN [keys |-> Append(grouped.keys, artifact.name),
             vals |-> Append(grouped.vals, <<artifact>>)]
       ELSE LET i == CHOOSE i \in KeyPos(grouped, artifact.name) : TRUE
            IN  [grouped EXCEPT !.vals[i] = Append(@, artifact)]

RECURSIVE GroupLoop(_, _, _)
GroupLoop(arts, grouped, k) ==
  IF k > Len(arts) THEN grouped
  ELSE GroupLoop(arts, AddToGroup(grouped, arts[k]), k + 1)

IsArrayIndex(key) == key \in DOMAIN ArrayIndexValue

RECURSIVE AscendingIndexKeys(_, _)
AscendingIndexKeys(keys, S) ==
  IF S = {} THEN <<>>
  ELSE LET m == CHOOSE i \in S :
                  \A j \in S : ArrayIndexValue[keys[i]] <= ArrayIndexValue[keys[j]]
       IN  <<m>> \o AscendingIndexKeys(keys, S \ {m})

RECURSIVE InsertionOrderKeys(_, _)
InsertionOrderKeys(keys, k) ==
  IF k > Len(keys) THEN <<>>
  ELSE (IF IsArrayIndex(keys[k]) THEN <<>> ELSE <<k>>)
       \o InsertionOrderKeys(keys, k + 1)

\* The property order of an ordinary object (OrdinaryOwnPropertyKeys): array
\* index keys in ascending numeric order, then the other string keys in
\* insertion order. The result lists positions in grouped.keys.
OwnPropertyOrder(keys) ==
  AscendingIndexKeys(keys, {i \in 1..Len(keys) : IsArrayIndex(keys[i])})
  \o InsertionOrderKeys(keys, 1)

\* Object.values(grouped)
ObjectValues(grouped) ==
  LET order == OwnPropertyOrder(grouped.keys)
  IN  [i \in 1..Len(order) |-> grouped.vals[order[i]]]

groupAndGetLatestArtifacts(arts) ==
  LET values == ObjectValues(GroupLoop(arts, EmptyGrouped, 1))
  IN  [i \in 1..Len(values) |-> getLatest(values[i])]

\* ------------------------------------------------------------------ filter

\* Lines 96-97 on one page of the listing.
KeepExpired(artifact, artifactName) ==
  IF artifactName # "" THEN artifact.name = artifactName ELSE TRUE
Keep(artifact, artifactName) ==
  /\ ~artifact.expired
  /\ IF artifactName # "" THEN artifact.name = artifactName ELSE TRUE

FilterPage(page, artifactName) ==
  SelectSeq(page, LAMBDA artifact : Keep(artifact, artifactName))

\* -------------------------------------------------------------------- paths
\* A path is the sequence of its segments; the empty sequence is the empty
\* string, "./" is <<".">> and an absolute path starts with the segment "/".

\* path.normalize on a relative path: "." and empty segments are dropped, and
\* what is empty then is ".".
RECURSIVE DropDots(_)
DropDots(p) ==
  IF p = <<>> THEN <<>>
  ELSE (IF Head(p) \in {".", ""} THEN <<>> ELSE <<Head(p)>>) \o DropDots(Tail(p))

Normalize(p) == IF DropDots(p) = <<>> THEN <<".">> ELSE DropDots(p)

\* pathname.join(path, name)
Join(p, name) == Normalize(p \o <<name>>)

\* The working directory of the process.
Cwd == <<"/", "work">>

\* pathname.resolve(path) of a relative path
Resolve(p) == Cwd \o DropDots(p)

\* artifact.name ?? "artifact"
NameOrDefault(name) == IF name = Absent THEN "artifact" ELSE name

\* Line 136: the directory an artifact is extracted into.
DirForAlwaysPath(path, artifactName, artifact) == path
DirFor(path, artifactName, artifact) ==
  IF artifactName # "" THEN path ELSE Join(path, NameOrDefault(artifact.name))

\* ------------------------------------------------------------------- state

VARIABLES
  pc,           \* where downloadArtifact() is
  repoId,       \* [owner, repo] of lines 66-69
  path,         \* `path` of lines 72-75
  artifactName, \* `artifactName` of line 76
  latest,       \* `latest` of line 78
  listed,       \* every artifact the listing service has returned so far
  artifacts,    \* `artifacts` of line 92
  cur,          \* position of the for loop of line 121 in `artifacts`
  calls,        \* the requests and file system operations made, in order
  foundOut,     \* core.setOutput('found-artifact', ..): <<>> while unset
  pathOut,      \* core.setOutput('path', ..): <<>> while unset
  failed        \* the messages given to core.setFailed, in order

vars == <<pc, repoId, path, artifactName, latest, listed, artifacts, cur,
          calls, foundOut, pathOut, failed>>

config == <<repoId, path, artifactName, latest>>
outputs == <<foundOut, pathOut>>

\* The state before downloadArtifact() runs.
Init ==
  /\ pc = "start"
  /\ repoId = [owner |-> "", repo |-> ""]
  /\ path = <<>>
  /\ artifactName = ""
  /\ latest = FALSE
  /\ listed = <<>>
  /\ artifacts = <<>>
  /\ cur = 0
  /\ calls = <<>>
  /\ foundOut = <<>>
  /\ pathOut = <<>>
  /\ failed = <<>>

\* The catch block of lines 153-155: the error ends the run with one
\* core.setFailed.
ThrowAndGoOn(message) ==
  /\ failed' = Append(failed, "Download failed: " \o message)
  /\ pc' = pc
Throw(message) ==
  /\ failed' = Append(failed, "Download failed: " \o message)
  /\ pc' = "failed"

\* ----------------------------------------------------------- configuration

\* The values of the action's inputs. repoInput is a sequence of characters.
TokenInputs == {"", "token"}
RepoInputs == {<<>>, <<"o">>, <<"o", "/">>, <<"/", "r">>, <<"o", "/", "r">>,
               <<"o", "/", "r", "/", "x">>}
PathInputs == {<<>>, <<"out">>}
NameInputs == {"", "a"}
LatestInputs == {"", "true", "True", "false"}

\* String.prototype.split("/") on a sequence of characters: the pieces
\* between the separators, each a sequence of characters.
RECURSIVE SplitFrom(_, _)
SplitFrom(chars, piece) ==
  IF chars = <<>> THEN <<piece>>
  ELSE IF Head(chars) = "/" THEN <<piece>> \o SplitFrom(Tail(chars), <<>>)
  ELSE SplitFrom(Tail(chars), Append(piece, Head(chars)))

Split(chars) == SplitFrom(chars, <<>>)

\* const [owner, repo] = ...: an element past the end is undefined; the
\* result is the piece as a string, "" for an empty piece.
RECURSIVE Concat(_)
Concat(piece) == IF piece = <<>> THEN "" ELSE Head(piece) \o Concat(Tail(piece))

Destructure(parts, i) == IF i > Len(parts) THEN Absent ELSE Concat(parts[i])

\* String.prototype.toLowerCase for the values of LatestInputs.
ToLowerCase(s) == IF s = "True" THEN "true" ELSE s

\* Line 78
ParseLatest(latest_input) ==
  IF latest_input # "" THEN ToLowerCase(latest_input) = "true" ELSE FALSE

\* Lines 64-78: the inputs are read; a missing required input or a malformed
\* repo throws.
Start ==
  /\ pc = "start"
  /\ \E token \in TokenInputs, repoInput \in RepoInputs, pathInput \in PathInputs,
        nameInput \in NameInputs, latest_input \in LatestInputs :
       LET parts == Split(repoInput)
           owner == Destructure(parts, 1)
           repo == Destructure(parts, 2)
       IN  IF token = ""
           THEN /\ Throw("Input required and not supplied: github_token")
                /\ UNCHANGED config
           ELSE IF repoInput = <<>>
           THEN /\ Throw("Input required and not supplied: repo")
                /\ UNCHANGED config
           ELSE IF Falsy(owner) \/ Falsy(repo)
           THEN /\ Throw("Invalid repo format")
                /\ UNCHANGED config
           ELSE /\ pc' = "list"
                /\ repoId' = [owner |-> owner, repo |-> repo]
                /\ path' = IF pathInput = <<>> THEN <<".">> ELSE pathInput
                /\ artifactName' = nameInput
                /\ latest' = ParseLatest(latest_input)
                /\ UNCHANGED failed
  /\ UNCHANGED <<listed, artifacts, cur, calls, outputs>>

\* ----------------------------------------------------------------- listing

\* What the listing service can say of one artifact in a run of Spec.
PipelineAttrs == [name : PipelineNames, updated_at : PipelineTimes, expired : BOOLEAN]

\* A page of n artifacts that follows the `before` artifacts already listed;
\* an artifact's id is its position in the whole listing.
MakePage(before, attrs) ==
  [i \in 1..Len(attrs) |->
     [id |-> before + i, name |-> attrs[i].name,
      updated_at |-> attrs[i].updated_at, expired |-> attrs[i].expired]]

\* Lines 94-99, one iteration: the paginator returns the next page, which is
\* filtered and appended. A page is full unless it is the last one, and only
\* the page of an empty listing is empty.
ListPage ==
  /\ pc = "list"
  /\ Len(listed) < MaxArtifacts \/ listed = <<>>
  /\ \E n \in 0..PerPage, hasNext \in BOOLEAN :
       /\ Len(listed) + n <= MaxArtifacts
       /\ n = 0 => listed = <<>>
       /\ hasNext => n = PerPage /\ Len(listed) + n < MaxArtifacts
       /\ \E attrs \in [1..n -> PipelineAttrs] :
            LET page == MakePage(Len(listed), attrs)
            IN  /\ listed' = listed \o page
                /\ artifacts' = artifacts \o FilterPage(page, artifactName)
       /\ pc' = IF hasNext THEN "list" ELSE "passA"
  /\ UNCHANGED <<config, cur, calls, outputs, failed>>

\* Lines 94-99: the request for a page fails.
ListFail ==
  /\ pc = "list"
  /\ Throw("listing failed")
  /\ UNCHANGED <<config, listed, artifacts, cur, calls, outputs>>

\* ---------------------------------------------------------------- selector

\* `artifacts.length` as a condition (lines 101 and 110)
NonEmpty(arts) == Len(arts) # 0

\* `artifacts.length` as the condition of line 116
FoundAlways(arts) == TRUE
FoundArtifacts(arts) == Len(arts) # 0

\* Lines 101-108. getLatest returns an element of the list, an object, so
\* the test of line 104 is true.
PassA ==
  /\ pc = "passA"
  /\ artifacts' = IF latest /\ NonEmpty(artifacts)
                  THEN <<getLatest(artifacts)>> ELSE artifacts
  /\ pc' = "passB"
  /\ UNCHANGED <<config, listed, cur, calls, outputs, failed>>

\* Lines 110-112
PassB ==
  /\ pc = "passB"
  /\ artifacts' = IF NonEmpty(artifacts)
                  THEN groupAndGetLatestArtifacts(artifacts) ELSE artifacts
  /\ pc' = "report"
  /\ UNCHANGED <<config, listed, cur, calls, outputs, failed>>

\* Lines 116-119 and 148-152: the outputs are set, before the first download.
Report ==
  /\ pc = "report"
  /\ IF FoundArtifacts(artifacts)
     THEN /\ foundOut' = <<TRUE>>
          /\ pathOut' = <<Resolve(path)>>
          /\ cur' = 1
          /\ pc' = "url"
     ELSE /\ foundOut' = <<FALSE>>
          /\ pathOut' = << <<>> >>
          /\ cur' = cur
          /\ pc' = "done"
  /\ UNCHANGED <<config, listed, artifacts, calls, failed>>

\* ------------------------------------------------------- fetcher/extractor

Call(op, dir) == [op |-> op, id |-> artifacts[cur].id, dir |-> dir]

\* Lines 127-132: client.rest.actions.downloadArtifact resolves or throws.
ResolveUrl ==
  /\ pc = "url"
  /\ calls' = Append(calls, Call("downloadArtifact", <<>>))
  /\ \/ pc' = "get" /\ UNCHANGED failed
     \/ Throw("downloadArtifact failed")
  /\ UNCHANGED <<config, listed, artifacts, cur, outputs>>

\* The responses of the archive server: a status code, or no response.
StatusCodes == {200, 302, 400, 404}

\* Line 42
IsErrorStatus(statusCode) == statusCode >= 400

\* Lines 38-51 and 134: get(url) resolves with the body, or rejects on a
\* request error or an error status.
Get ==
  /\ pc = "get"
  /\ calls' = Append(calls, Call("get", <<>>))
  /\ \/ \E statusCode \in StatusCodes :
          IF IsErrorStatus(statusCode)
          THEN Throw("Failed to get url")
          ELSE pc' = "mkdir" /\ UNCHANGED failed
     \/ Throw("request error")
  /\ UNCHANGED <<config, listed, artifacts, cur, outputs>>

\* Lines 136-137: fs.promises.mkdir(dir, { recursive: true })
Mkdir ==
  /\ pc = "mkdir"
  /\ calls' = Append(calls, Call("mkdir", DirFor(path, artifactName, artifacts[cur])))
  /\ \/ pc' = "zip" /\ UNCHANGED failed
     \/ Throw("mkdir failed")
  /\ UNCHANGED <<config, listed, artifacts, cur, outputs>>

\* Lines 139-144: the buffer is parsed as a zip archive (its entries are
\* logged); a malformed archive throws.
Zip ==
  /\ pc = "zip"
  /\ calls' = Append(calls, Call("AdmZip", <<>>))
  /\ \/ pc' = "extract" /\ UNCHANGED failed
     \/ Throw("Invalid or unsupported zip format")
  /\ UNCHANGED <<config, listed, artifacts, cur, outputs>>

\* Line 146, and the step of the for loop of line 121.
Extract ==
  /\ pc = "extract"
  /\ calls' = Append(calls, Call("extractAllTo", DirFor(path, artifactName, artifacts[cur])))
  /\ \/ /\ cur' = cur + 1
        /\ pc' = IF cur < Len(artifacts) THEN "url" ELSE "done"
        /\ UNCHANGED failed
     \/ /\ Throw("extraction failed")
        /\ cur' = cur
  /\ UNCHANGED <<config, listed, artifacts, outputs>>

Next ==
  \/ Start
  \/ ListPage
  \/ ListFail
  \/ PassA
  \/ PassB
  \/ Report
  \/ ResolveUrl
  \/ Get
  \/ Mkdir
  \/ Zip
  \/ Extract

Spec == Init /\ [][Next]_vars

\* ------------------------------------------------- the selector on its own

\* What a filtered artifact can carry in a run of SpecSelect.
SelectAttrs == [name : Names, updated_at : Times, expired : {FALSE}]

\* The state at line 101 after a listing of at most MaxLen artifacts, none
\* expired, with no name filter: the filtered list is the listing.
InitSelect ==
  /\ pc = "passA"
  /\ repoId = [owner |-> "o", repo |-> "r"]
  /\ path = <<".">>
  /\ artifactName = ""
  /\ latest \in BOOLEAN
  /\ \E n \in 0..MaxLen : \E attrs \in [1..n -> SelectAttrs] :
       listed = MakePage(0, attrs)
  /\ artifacts = listed
  /\ cur = 0
  /\ calls = <<>>
  /\ foundOut = <<>>
  /\ pathOut = <<>>
  /\ failed = <<>>

NextSelect ==
  \/ PassA
  \/ PassB

SpecSelect == InitSelect /\ [][NextSelect]_vars

\* ------------------------------------------------------------------ claims

\* The artifacts the listing service returned.
ListedSet == {listed[i] : i \in 1..Len(listed)}

\* The listed artifacts that are not expired and pass the name filter.
Matching ==
  {a \in ListedSet : ~a.expired /\ (artifactName = "" \/ a.name = artifactName)}

NamesOf(arts) == {arts[i].name : i \in 1..Len(arts)}

\* The position of the first artifact called `name` in arts.
FirstPos(arts, name) ==
  CHOOSE i \in 1..Len(arts) :
    /\ arts[i].name = name
    /\ \A j \in 1..(i - 1) : arts[j].name # name

\* The program points after the selector, failures apart.
AfterSelector == {"report", "url", "get", "mkdir", "zip", "extract", "done"}
Fetching == {"url", "get", "mkdir", "zip", "extract"}

\* C1: for every non-empty working set handed to groupAndGetLatestArtifacts
\* (here the whole filtered list, as latest-only is off), the output holds
\* exactly one artifact per distinct name of the input, whatever the name,
\* an empty or absent one included, and as many artifacts as distinct names.
C1_OnePerDistinctName ==
  (pc = "report" /\ ~latest /\ listed # <<>>) =>
     /\ NamesOf(artifacts) = NamesOf(listed)
     /\ Len(artifacts) = Cardinality(NamesOf(listed))
     /\ \A i, j \in 1..Len(artifacts) :
          artifacts[i].name = artifacts[j].name => i = j

\* C2: with latest-only on and a non-empty filtered list, the selection after
\* both passes has exactly one artifact.
C2_LatestOnlySelectsExactlyOne ==
  (pc \in AfterSelector /\ latest /\ Matching # {}) => Len(artifacts) = 1

\* C3: getLatest over a list that holds an artifact with a timestamp returns
\* an artifact with a timestamp, wherever the artifacts without one stand.
C3_MissingNeverOutranksPresent ==
  (pc = "passB" /\ latest /\ \E i \in 1..Len(listed) : listed[i].updated_at # NoTime)
    => artifacts[1].updated_at # NoTime

\* C4: a run that ends in failure has set neither the found-artifact output
\* nor the path output.
C4_FailedRunSetsNoOutput ==
  pc = "failed" => foundOut = <<>> /\ pathOut = <<>>

C6_EmptyFilteredListReportsNotFound ==
  (pc \notin {"start", "list"} /\ Matching = {}) =>
     /\ calls = <<>>
     /\ pc \notin Fetching
     /\ artifacts = <<>>
     /\ pc = "done" => foundOut = <<FALSE>> /\ pathOut = << <<>> >>

\* The listing was not empty, but nothing in it passed the filter.
C6_Witness ==
  /\ pc = "done"
  /\ Len(listed) >= 2
  /\ Matching = {}
  /\ \E a \in ListedSet : ~a.expired
  /\ foundOut = <<FALSE>>

\* C7: the filtered list accumulated over the pages is a sub-sequence of the
\* listing in the listing's order, holds no expired artifact, holds only
\* artifacts called as the name filter says when there is one, and holds
\* every listed artifact that is not expired and passes the filter.
C7_FilterKeepsExactlyTheMatching ==
  pc \in {"list", "passA"} =>
     /\ \A i \in 1..Len(artifacts) :
          /\ artifacts[i].id \in 1..Len(listed)
          /\ artifacts[i] = listed[artifacts[i].id]
          /\ ~artifacts[i].expired
          /\ artifactName # "" => artifacts[i].name = artifactName
     /\ \A i, j \in 1..Len(artifacts) :
          i < j => artifacts[i].id < artifacts[j].id
     /\ \A a \in Matching : \E i \in 1..Len(artifacts) : artifacts[i] = a

\* A listing of two pages with a name filter, where the filter dropped an
\* expired artifact of that name and one of another name.
C7_Witness ==
  /\ pc = "passA"
  /\ Len(listed) > PerPage
  /\ artifactName = "a"
  /\ Len(artifacts) = 1
  /\ artifacts[1].id > 1
  /\ \E a \in ListedSet : a.expired /\ a.name = "a"
  /\ \E a \in ListedSet : ~a.expired /\ a.name # "a"

\* The calls that create a directory or extract into one.
DirCalls == {i \in 1..Len(calls) : calls[i].op \in {"mkdir", "extractAllTo"}}

\* C8: with a name filter every artifact is extracted into the configured
\* path itself; without one, into the configured path followed by the
\* artifact's name ("artifact" for an absent name), so that artifacts with
\* different names go to different directories.
C8_DestinationDirectory ==
  /\ \A i \in DirCalls :
       LET name == listed[calls[i].id].name
           last == IF name = Absent THEN "artifact" ELSE name
       IN  IF artifactName # "" THEN calls[i].dir = path
           ELSE calls[i].dir = (IF path = <<".">> THEN <<last>> ELSE path \o <<last>>)
  /\ \A i, j \in DirCalls :
       (artifactName = "" /\ listed[calls[i].id].name # listed[calls[j].id].name)
         => calls[i].dir # calls[j].dir

\* Two artifacts with different names were extracted without a name filter.
C8_Witness ==
  /\ pc = "done"
  /\ artifactName = ""
  /\ path = <<"out">>
  /\ Len(artifacts) = 2
  /\ \E i, j \in DirCalls :
       /\ calls[i].op = "extractAllTo" /\ calls[i].dir = <<"out", "1">>
       /\ calls[j].op = "extractAllTo" /\ calls[j].dir = <<"out", "a">>

\* The position of the first artifact of arts with the greatest timestamp.
FirstGreatest(arts) ==
  CHOOSE i \in 1..Len(arts) :
    /\ \A j \in 1..Len(arts) : arts[j].updated_at <= arts[i].updated_at
    /\ \A j \in 1..(i - 1) : arts[j].updated_at < arts[i].updated_at

C10_GroupDiscoveryOrder ==
  (pc = "report" /\ ~latest) =>
     \A i, j \in 1..Len(artifacts) :
        i < j => FirstPos(listed, artifacts[i].name) < FirstPos(listed, artifacts[j].name)

====
